---------------------------- MODULE Spec2Model ----------------------------
(***************************************************************************)
(* A model of the EigenCuda device-memory code:                            *)
(*   src/src/memory_manager.cc   count_available_gpus, alloc_tensor_in_gpu,*)
(*                               throw_if_not_enough_memory_in_gpu         *)
(*   src/include/eigencuda.hpp   checkCuda, TensorMatrix constructor       *)
(*   src/gemm/gemm_cublas.cpp    cublas_gemm                               *)
(* The vendor runtime (cudaMalloc, cudaFree, cudaMemcpy, cudaMemGetInfo,   *)
(* cudaGetDeviceCount, cuBLAS) is the environment: every vendor call may   *)
(* report failure.  A variable the code reads without having written it    *)
(* holds an arbitrary value.                                               *)
(***************************************************************************)
EXTENDS Integers, Sequences, FiniteSets, TLC

\* ------------------------------------------------------------------ bounds
\* Bytes of device memory; device addresses are 1..TotalMem, 0 is nullptr.
TotalMem == 2
\* Largest byte count a caller requests.
MaxReq == 3
\* Owning handles that exist at the same time.
MaxHandles == 2
\* Largest device count the runtime reports.
MaxGpus == 9
\* Largest number of rows or columns of an operand of cublas_gemm.
MaxDim == 2
\* Device addresses available to cublas_gemm: 1..MaxGemmPtr.
MaxGemmPtr == 4
\* Largest batchCount of a TensorMatrix.
MaxBatch == 2
\* Writes by later calls to the stack cells a returned frame occupied.
MaxClobbers == 2

NullPtr == 0
\* The content of a local variable that was declared and never written.
Uninit == -1
cudaSuccess == 0
cudaError == 1

Ptrs == 1..TotalMem
\* The values a pointer-typed variable that was never written may hold.
PtrValues == {NullPtr} \cup Ptrs

\* --------------------------------------------------------------- variables
VARIABLES
  \* memory_manager.cc
  DEBUG,        \* the build defines DEBUG or _DEBUG
  devLive,      \* this process's live device regions: address -> bytes
  otherUsed,    \* bytes held by other allocators of the same device
  pc,           \* position inside alloc_tensor_in_gpu: idle, check, malloc, wrap
  size_tensor,  \* the argument of the call in flight
  dtensor,      \* the local double *dtensor
  free,         \* the local size_t free of throw_if_not_enough_memory_in_gpu
  queryOk,      \* cudaMemGetInfo reported cudaSuccess
  mallocCalls,  \* cudaMalloc calls issued by the call in flight
  mallocOk,     \* the cudaMalloc of the call in flight reported cudaSuccess
  freeAtMalloc, \* the device's free bytes when that cudaMalloc was issued
  liveAtEntry,  \* DOMAIN devLive when the call was entered
  cerrLines,    \* "CUDA Runtime Error" lines written by the call in flight
  outcome,      \* how the last call ended
  handles,      \* live Unique_ptr_to_GPU_data objects: id -> held pointer
  owned,        \* ids of the handles whose pointer a successful cudaMalloc returned
  badFree,      \* a cudaFree was issued for an address that is not live
  \* count_available_gpus
  lastCount     \* the last count_available_gpus call: query result and return value

memVars == <<DEBUG, devLive, otherUsed, pc, size_tensor, dtensor, free, queryOk,
             mallocCalls, mallocOk, freeAtMalloc, liveAtEntry, cerrLines, outcome, handles,
             owned, badFree>>

countVars == <<lastCount>>

VARIABLES
  \* gemm_cublas.cpp, cublas_gemm(Mat A, Mat B)
  gpc,          \* the next statement of cublas_gemm
  A_rows, A_cols, B_rows, B_cols,   \* the shapes of the operands
  size,         \* int size = A.cols()
  dA, dB, dC,   \* the locals float *dA, *dB, *dC
  handleOk,     \* cublasCreate produced a usable handle
  gLive,        \* live device regions: address -> elements (floats)
  gLiveAtEntry, \* DOMAIN gLive when cublas_gemm was entered
  failed,       \* some vendor call of this run reported an error
  opLog,        \* the device operations issued so far, in order
  gBadFree,     \* a cudaFree was issued for an address that is not live
  returned      \* what cublas_gemm returned

gemmVars == <<gpc, A_rows, A_cols, B_rows, B_cols, size, dA, dB, dC, handleOk,
              gLive, gLiveAtEntry, failed, opLog, gBadFree, returned>>

VARIABLES
  \* eigencuda.hpp, TensorMatrix
  tpc,          \* the instance: new, built (constructor returned), destroyed
  _batchCount, _dimA, _dimB, _dimC,
  _tensorA, _tensorB, _tensorC,   \* T **: the address of the first cell of a table
  stack,        \* the stack cells of the constructor's frame: cell -> content
  tLive,        \* live device regions: address -> elements
  slotsA, slotsB, slotsC,   \* the device addresses allocated at construction
  clobbers,     \* writes to those stack cells since the constructor returned
  uploaded,     \* the device addresses the last tensor_dot_matrix copied into
  tBadFree      \* a cudaFree was issued for an address that is not live

tensorVars == <<tpc, _batchCount, _dimA, _dimB, _dimC, _tensorA, _tensorB,
                _tensorC, stack, tLive, slotsA, slotsB, slotsC, clobbers,
                uploaded, tBadFree>>

vars == <<memVars, countVars, gemmVars, tensorVars>>

\* ----------------------------------------------------------------- helpers
RECURSIVE SumOver(_, _)
SumOver(f, S) ==
  IF S = {} THEN 0
  ELSE LET x == CHOOSE y \in S : TRUE IN f[x] + SumOver(f, S \ {x})

\* Bytes this process holds on the device.
OwnUsed == SumOver(devLive, DOMAIN devLive)

\* What cudaMemGetInfo reports as free.
FreeMem == TotalMem - OwnUsed - otherUsed

Remove(f, p) == [q \in DOMAIN f \ {p} |-> f[q]]

\* checkCuda: logs in a debug build, and returns its argument in every build.
checkCudaLogs(debug, result) == IF debug /\ result # cudaSuccess THEN 1 ELSE 0

checkCuda(result) == result

\* The test with its boundary moved: a request for exactly the free bytes fails.
NotEnoughMemoryOffByOne(requested_memory, freeBytes) == requested_memory >= freeBytes

\* The test of throw_if_not_enough_memory_in_gpu.
NotEnoughMemory(requested_memory, freeBytes) == requested_memory > freeBytes

\* count_available_gpus: `0 ? (err != cudaSuccess) : Index(count)`.
CountReturn(err, count) ==
  IF 0 # 0 THEN (IF err # cudaSuccess THEN 1 ELSE 0) ELSE count

NoOutcome == [kind |-> "none"]

\* ------------------------------------------------------------------- Init
InitMem ==
  /\ DEBUG \in BOOLEAN
  /\ devLive = <<>>
  /\ otherUsed = 0
  /\ pc = "idle"
  /\ size_tensor = 0
  /\ dtensor = Uninit
  /\ free = Uninit
  /\ queryOk = TRUE
  /\ mallocCalls = 0
  /\ mallocOk = FALSE
  /\ freeAtMalloc = Uninit
  /\ liveAtEntry = {}
  /\ cerrLines = 0
  /\ outcome = NoOutcome
  /\ handles = <<>>
  /\ owned = {}
  /\ badFree = FALSE

InitCount == lastCount = [kind |-> "none"]


\* ------------------------------------------------- alloc_tensor_in_gpu
\* The smallest handle id not in use (ids only name the handle objects).
FreshHandle == CHOOSE h \in 1..MaxHandles :
                 /\ h \notin DOMAIN handles
                 /\ \A g \in 1..MaxHandles : g \notin DOMAIN handles => h <= g

\* A caller enters alloc_tensor_in_gpu(r): `double *dtensor;` is declared and
\* not written.
CallAlloc(r) ==
  /\ pc = "idle"
  /\ DOMAIN handles # 1..MaxHandles
  /\ pc' = "check"
  /\ size_tensor' = r
  /\ dtensor' = Uninit
  /\ free' = Uninit
  /\ queryOk' = TRUE
  /\ mallocCalls' = 0
  /\ mallocOk' = FALSE
  /\ freeAtMalloc' = Uninit
  /\ liveAtEntry' = DOMAIN devLive
  /\ cerrLines' = 0
  /\ outcome' = NoOutcome
  /\ UNCHANGED <<DEBUG, devLive, otherUsed, handles, owned, badFree>>
  /\ UNCHANGED <<countVars, gemmVars, tensorVars>>

\* throw_if_not_enough_memory_in_gpu(size_tensor): cudaMemGetInfo writes free
\* when it succeeds; when it fails free keeps whatever it held (garbage).
\* checkCuda returns the error and nobody reads it.  Throws iff
\* requested_memory > free.
ThrowIfNotEnoughMemoryInGpu(ok, garbage) ==
  /\ pc = "check"
  /\ LET err == checkCuda(IF ok THEN cudaSuccess ELSE cudaError)
         f   == IF ok THEN FreeMem ELSE garbage
         log == cerrLines + checkCudaLogs(DEBUG, err)
     IN /\ free' = f
        /\ queryOk' = ok
        /\ cerrLines' = log
        /\ IF NotEnoughMemory(size_tensor, f)
           THEN /\ pc' = "idle"
                /\ outcome' = [kind |-> "threw", size |-> size_tensor, free |-> f,
                               queryOk |-> ok, mallocCalls |-> mallocCalls,
                               mallocOk |-> mallocOk,
                               freeAtMalloc |-> freeAtMalloc, liveBefore |-> liveAtEntry,
                               liveAfter |-> DOMAIN devLive, cerrLines |-> log]
           ELSE /\ pc' = "malloc"
                /\ outcome' = outcome
  /\ UNCHANGED <<DEBUG, devLive, otherUsed, size_tensor, dtensor, mallocCalls,
                 mallocOk, freeAtMalloc, liveAtEntry, handles, owned, badFree>>
  /\ UNCHANGED <<countVars, gemmVars, tensorVars>>

\* checkCuda(cudaMalloc(&dtensor, size_tensor)): the runtime can grant the
\* request only if the bytes are free now; on failure dtensor is not written.
\* The returned error is dropped.
CudaMalloc(ok, p) ==
  /\ pc = "malloc"
  /\ ok => /\ size_tensor <= FreeMem
           /\ p \in Ptrs \ DOMAIN devLive
  /\ LET err == checkCuda(IF ok THEN cudaSuccess ELSE cudaError)
     IN /\ cerrLines' = cerrLines + checkCudaLogs(DEBUG, err)
        /\ mallocOk' = (err = cudaSuccess)
  /\ mallocCalls' = mallocCalls + 1
  /\ freeAtMalloc' = FreeMem
  /\ IF ok
     THEN /\ dtensor' = p
          /\ devLive' = devLive @@ (p :> size_tensor)
     ELSE UNCHANGED <<dtensor, devLive>>
  /\ pc' = "wrap"
  /\ UNCHANGED <<DEBUG, otherUsed, size_tensor, free, queryOk, liveAtEntry,
                 outcome, handles, owned, badFree>>
  /\ UNCHANGED <<countVars, gemmVars, tensorVars>>

\* Unique_ptr_to_GPU_data dev_ptr(dtensor, deleter); return dev_ptr;
\* reads dtensor: the address cudaMalloc wrote, or garbage if it wrote none.
WrapAndReturn(garbage) ==
  /\ pc = "wrap"
  /\ LET ptr == IF dtensor = Uninit THEN garbage ELSE dtensor
         h   == FreshHandle
     IN /\ handles' = handles @@ (h :> ptr)
        /\ owned' = IF mallocOk THEN owned \cup {h} ELSE owned
        /\ outcome' = [kind |-> "handle", size |-> size_tensor, free |-> free,
                       queryOk |-> queryOk, mallocCalls |-> mallocCalls,
                       mallocOk |-> mallocOk,
                               freeAtMalloc |-> freeAtMalloc, liveBefore |-> liveAtEntry,
                       liveAfter |-> DOMAIN devLive, cerrLines |-> cerrLines]
  /\ pc' = "idle"
  /\ UNCHANGED <<DEBUG, devLive, otherUsed, size_tensor, dtensor, free, queryOk,
                 mallocCalls, mallocOk, freeAtMalloc, liveAtEntry, cerrLines, badFree>>
  /\ UNCHANGED <<countVars, gemmVars, tensorVars>>

\* Another engine instance or process allocates or frees on the same device.
OtherAllocator(n) ==
  /\ n # otherUsed
  /\ n <= TotalMem - OwnUsed
  /\ otherUsed' = n
  /\ UNCHANGED <<DEBUG, devLive, pc, size_tensor, dtensor, free, queryOk,
                 mallocCalls, mallocOk, freeAtMalloc, liveAtEntry, cerrLines, outcome, handles,
                 owned, badFree>>
  /\ UNCHANGED <<countVars, gemmVars, tensorVars>>

\* ------------------------------------------------ Unique_ptr_to_GPU_data
\* The deleter `[](double *x) { checkCuda(cudaFree(x)); }`: cudaFree releases a
\* live region, accepts nullptr, and reports an error for any other address.
CudaFree(live, x) == IF x \in DOMAIN live THEN Remove(live, x) ELSE live

CudaFreeInvalid(live, x) == x # NullPtr /\ x \notin DOMAIN live

\* A handle is destroyed: unique_ptr runs the deleter iff it holds non-null.
DestroyHandle(h) ==
  /\ pc = "idle"
  /\ h \in DOMAIN handles
  /\ devLive' = IF handles[h] # NullPtr THEN CudaFree(devLive, handles[h]) ELSE devLive
  /\ badFree' = (badFree \/ CudaFreeInvalid(devLive, handles[h]))
  /\ handles' = Remove(handles, h)
  /\ owned' = owned \ {h}
  /\ UNCHANGED <<DEBUG, otherUsed, pc, size_tensor, dtensor, free, queryOk,
                 mallocCalls, mallocOk, freeAtMalloc, liveAtEntry, cerrLines, outcome>>
  /\ UNCHANGED <<countVars, gemmVars, tensorVars>>

\* Ownership moves to a new handle; the moved-from handle holds nullptr.
MoveHandle(h) ==
  /\ pc = "idle"
  /\ h \in DOMAIN handles
  /\ DOMAIN handles # 1..MaxHandles
  /\ LET g == FreshHandle
     IN /\ handles' = [handles EXCEPT ![h] = NullPtr] @@ (g :> handles[h])
        /\ owned' = IF h \in owned THEN (owned \ {h}) \cup {g} ELSE owned
  /\ UNCHANGED <<DEBUG, devLive, otherUsed, pc, size_tensor, dtensor, free,
                 queryOk, mallocCalls, mallocOk, freeAtMalloc, liveAtEntry, cerrLines, outcome,
                 badFree>>
  /\ UNCHANGED <<countVars, gemmVars, tensorVars>>

\* ------------------------------------------------- count_available_gpus
\* `int count;` is written by cudaGetDeviceCount when the query succeeds and
\* holds garbage otherwise.
CountAvailableGpus(ok, n, garbage) ==
  /\ LET err   == IF ok THEN cudaSuccess ELSE cudaError
         count == IF ok THEN n ELSE garbage
     IN lastCount' = [kind |-> "returned", ok |-> ok, devices |-> n,
                      value |-> CountReturn(err, count)]
  /\ UNCHANGED <<memVars, gemmVars, tensorVars>>


\* ------------------------------------------------------------ cublas_gemm
GemmPtrs == 1..MaxGemmPtr
GemmPtrValues == {NullPtr} \cup GemmPtrs

\* ptr is the start of a live device region of at least n elements.
DeviceRange(live, ptr, n) == ptr \in DOMAIN live /\ n <= live[ptr]

\* One issued device operation: its name, the elements it covers, the length of
\* the host buffer it reads or writes (0: none), the cublasSgemm dimensions
\* (<<>>: none), whether every device buffer it touches is a live region of
\* sufficient length, and whether the vendor call reported success.
LogEntry(op, count, host, dims, valid, ok) ==
  [op |-> op, count |-> count, host |-> host, dims |-> dims,
   valid |-> valid, ok |-> ok]

\* The element count of every cudaMalloc and cudaMemcpy: size*size.
Elements(n) == n * n

\* The shape cublas_gemm gives its result: Mat::Zero(size,size), Map(hC,size,size).
ResultShape(n) == <<n, n>>

\* The dimensions cublas_gemm passes to cublasSgemm: size,size,size.
SgemmDims(n) == <<n, n, n>>

InitGemm ==
  /\ gpc = "entry"
  /\ A_rows \in 1..MaxDim /\ A_cols \in 1..MaxDim
  /\ B_rows \in 1..MaxDim /\ B_cols \in 1..MaxDim
  /\ size = Uninit
  /\ dA = Uninit /\ dB = Uninit /\ dC = Uninit
  /\ handleOk = FALSE
  /\ gLive \in {<<>>, (1 :> 1)}
  /\ gLiveAtEntry = DOMAIN gLive
  /\ failed = FALSE
  /\ opLog = <<>>
  /\ gBadFree = FALSE
  /\ returned = [kind |-> "none"]

\* int size = A.cols(); Mat C = Mat::Zero(size,size); hA, hB, hC.
GemmEnter ==
  /\ gpc = "entry"
  /\ size' = A_cols
  /\ gpc' = "mallocA"
  /\ UNCHANGED <<A_rows, A_cols, B_rows, B_cols, dA, dB, dC, handleOk, gLive,
                 gLiveAtEntry, failed, opLog, gBadFree, returned>>
  /\ UNCHANGED <<memVars, countVars, tensorVars>>

\* The address cudaMalloc returns: the lowest one that is not live (addresses
\* are interchangeable names; garbage pointers range over all of them).
FreshPtr(live) == CHOOSE p \in GemmPtrs \ DOMAIN live :
                    \A q \in GemmPtrs \ DOMAIN live : p <= q

\* cudaMalloc(&d, size*size*sizeof(float)), its return value dropped: on
\* success d is a fresh region; on failure d is not written and keeps garbage.
GemmMalloc(op, ok, next) ==
  /\ ok => GemmPtrs \ DOMAIN gLive # {}
  /\ gLive' = IF ok THEN gLive @@ (FreshPtr(gLive) :> Elements(size)) ELSE gLive
  /\ failed' = (failed \/ ~ok)
  /\ opLog' = Append(opLog, LogEntry(op, Elements(size), 0, <<>>, TRUE, ok))
  /\ gpc' = next
  /\ UNCHANGED <<A_rows, A_cols, B_rows, B_cols, size, handleOk, gLiveAtEntry,
                 gBadFree, returned>>
  /\ UNCHANGED <<memVars, countVars, tensorVars>>

MallocA(ok, garbage) ==
  /\ gpc = "mallocA"
  /\ GemmMalloc("mallocA", ok, "mallocB")
  /\ dA' = IF ok THEN FreshPtr(gLive) ELSE garbage
  /\ UNCHANGED <<dB, dC>>

MallocB(ok, garbage) ==
  /\ gpc = "mallocB"
  /\ GemmMalloc("mallocB", ok, "mallocC")
  /\ dB' = IF ok THEN FreshPtr(gLive) ELSE garbage
  /\ UNCHANGED <<dA, dC>>

MallocC(ok, garbage) ==
  /\ gpc = "mallocC"
  /\ GemmMalloc("mallocC", ok, "create")
  /\ dC' = IF ok THEN FreshPtr(gLive) ELSE garbage
  /\ UNCHANGED <<dA, dB>>

\* cublasCreate(&handle), its status dropped.
CublasCreate(ok) ==
  /\ gpc = "create"
  /\ handleOk' = ok
  /\ failed' = (failed \/ ~ok)
  /\ opLog' = Append(opLog, LogEntry("create", 0, 0, <<>>, TRUE, ok))
  /\ gpc' = "h2dA"
  /\ UNCHANGED <<A_rows, A_cols, B_rows, B_cols, size, dA, dB, dC, gLive,
                 gLiveAtEntry, gBadFree, returned>>
  /\ UNCHANGED <<memVars, countVars, tensorVars>>

\* cudaMemcpy(d, h, size*size*sizeof(float), kind), its status dropped.
GemmMemcpy(op, d, hostLen, ok, next) ==
  /\ LET valid == DeviceRange(gLive, d, Elements(size))
     IN /\ failed' = (failed \/ ~(ok /\ valid))
        /\ opLog' = Append(opLog, LogEntry(op, Elements(size), hostLen, <<>>,
                                           valid, ok /\ valid))
  /\ gpc' = next
  /\ UNCHANGED <<A_rows, A_cols, B_rows, B_cols, size, dA, dB, dC, handleOk,
                 gLive, gLiveAtEntry, gBadFree, returned>>
  /\ UNCHANGED <<memVars, countVars, tensorVars>>

MemcpyA(ok) == gpc = "h2dA" /\ GemmMemcpy("h2dA", dA, A_rows * A_cols, ok, "h2dB")

MemcpyB(ok) == gpc = "h2dB" /\ GemmMemcpy("h2dB", dB, B_rows * B_cols, ok, "gemm")

\* cublasSgemm(handle, N, N, size,size,size, pa, dA,size, dB,size, pb, dC,size).
CublasSgemm(ok) ==
  /\ gpc = "gemm"
  /\ LET valid == /\ DeviceRange(gLive, dA, Elements(size))
                  /\ DeviceRange(gLive, dB, Elements(size))
                  /\ DeviceRange(gLive, dC, Elements(size))
         good  == ok /\ valid /\ handleOk
     IN /\ failed' = (failed \/ ~good)
        /\ opLog' = Append(opLog, LogEntry("gemm", Elements(size), 0,
                                           SgemmDims(size), valid, good))
  /\ gpc' = "d2hC"
  /\ UNCHANGED <<A_rows, A_cols, B_rows, B_cols, size, dA, dB, dC, handleOk,
                 gLive, gLiveAtEntry, gBadFree, returned>>
  /\ UNCHANGED <<memVars, countVars, tensorVars>>

\* cudaMemcpy(hC, dC, size*size*sizeof(float), cudaMemcpyDeviceToHost);
\* hC is the buffer of Mat::Zero(size,size).
MemcpyC(ok) ==
  gpc = "d2hC" /\ GemmMemcpy("d2hC", dC, Elements(size), ok, "destroy")

\* C = Eigen::Map<Mat>(hC,size,size); cublasDestroy(handle).
CublasDestroy ==
  /\ gpc = "destroy"
  /\ opLog' = Append(opLog, LogEntry("destroy", 0, 0, <<>>, TRUE, handleOk))
  /\ failed' = (failed \/ ~handleOk)
  /\ handleOk' = FALSE
  /\ gpc' = "freeA"
  /\ UNCHANGED <<A_rows, A_cols, B_rows, B_cols, size, dA, dB, dC, gLive,
                 gLiveAtEntry, gBadFree, returned>>
  /\ UNCHANGED <<memVars, countVars, tensorVars>>

\* cudaFree(d), its status dropped.
GemmFree(op, d, next) ==
  /\ gLive' = CudaFree(gLive, d)
  /\ gBadFree' = (gBadFree \/ CudaFreeInvalid(gLive, d))
  /\ failed' = (failed \/ CudaFreeInvalid(gLive, d))
  /\ opLog' = Append(opLog, LogEntry(op, 0, 0, <<>>, ~CudaFreeInvalid(gLive, d),
                                     ~CudaFreeInvalid(gLive, d)))
  /\ gpc' = next
  /\ UNCHANGED <<A_rows, A_cols, B_rows, B_cols, size, dA, dB, dC, handleOk,
                 gLiveAtEntry, returned>>
  /\ UNCHANGED <<memVars, countVars, tensorVars>>

FreeA == gpc = "freeA" /\ GemmFree("freeA", dA, "freeB")

FreeB == gpc = "freeB" /\ GemmFree("freeB", dB, "freeC")

FreeC == gpc = "freeC" /\ GemmFree("freeC", dC, "return")

\* return C;
GemmReturn ==
  /\ gpc = "return"
  /\ returned' = [kind |-> "value", shape |-> ResultShape(size)]
  /\ gpc' = "done"
  /\ UNCHANGED <<A_rows, A_cols, B_rows, B_cols, size, dA, dB, dC, handleOk,
                 gLive, gLiveAtEntry, failed, opLog, gBadFree>>
  /\ UNCHANGED <<memVars, countVars, tensorVars>>

NextGemm ==
  \/ GemmEnter
  \/ \E ok \in BOOLEAN, g \in GemmPtrValues : MallocA(ok, g)
  \/ \E ok \in BOOLEAN, g \in GemmPtrValues : MallocB(ok, g)
  \/ \E ok \in BOOLEAN, g \in GemmPtrValues : MallocC(ok, g)
  \/ \E ok \in BOOLEAN : CublasCreate(ok)
  \/ \E ok \in BOOLEAN : MemcpyA(ok)
  \/ \E ok \in BOOLEAN : MemcpyB(ok)
  \/ \E ok \in BOOLEAN : CublasSgemm(ok)
  \/ \E ok \in BOOLEAN : MemcpyC(ok)
  \/ CublasDestroy
  \/ FreeA
  \/ FreeB
  \/ FreeC
  \/ GemmReturn


\* ----------------------------------------------------------- TensorMatrix
\* The constructor's frame: arr, brr, crr are arrays of _batchCount pointers
\* in consecutive stack cells.
StackCells == 1..(3 * MaxBatch)
TensorPtrs == 1..(3 * MaxBatch)

\* The pointer table read through a T ** that holds stack address base.
Table(base, n) == [i \in 1..n |-> stack[base + i - 1]]

InitTensor ==
  /\ tpc = "new"
  /\ _batchCount = 0 /\ _dimA = 0 /\ _dimB = 0 /\ _dimC = 0
  /\ _tensorA = Uninit /\ _tensorB = Uninit /\ _tensorC = Uninit
  /\ stack = [c \in StackCells |-> Uninit]
  /\ tLive = <<>>
  /\ slotsA = <<>> /\ slotsB = <<>> /\ slotsC = <<>>
  /\ clobbers = 0
  /\ uploaded = <<>>
  /\ tBadFree = FALSE

\* gpu_alloc_tensor(arr, shape, batchCount): one device region per slot, its
\* address stored in arr[i].  The regions of the k-th table are the addresses
\* first + 1 .. first + batchCount.
GpuAllocTensor(first, batchCount) == [i \in 1..batchCount |-> first + i]

\* TensorMatrix(batchCount, dimA, dimB, dimC): fills the local arrays arr, brr,
\* crr, stores their addresses in _tensorA, _tensorB, _tensorC and returns, which
\* ends the lifetime of the arrays.
TensorMatrixCtor(batchCount, dimA, dimB, dimC) ==
  /\ tpc = "new"
  /\ LET arr == GpuAllocTensor(0, batchCount)
         brr == GpuAllocTensor(batchCount, batchCount)
         crr == GpuAllocTensor(2 * batchCount, batchCount)
         arrAt == 1
         brrAt == 1 + batchCount
         crrAt == 1 + 2 * batchCount
     IN /\ stack' = [c \in StackCells |->
                       IF c < brrAt THEN arr[c]
                       ELSE IF c < crrAt THEN brr[c - batchCount]
                       ELSE IF c < crrAt + batchCount THEN crr[c - 2 * batchCount]
                       ELSE stack[c]]
        /\ tLive' = [p \in 1..(3 * batchCount) |->
                       IF p <= batchCount THEN dimA
                       ELSE IF p <= 2 * batchCount THEN dimB ELSE dimC]
        /\ slotsA' = arr /\ slotsB' = brr /\ slotsC' = crr
        /\ _tensorA' = arrAt
        /\ _tensorB' = brrAt
        /\ _tensorC' = crrAt
  /\ _batchCount' = batchCount
  /\ _dimA' = dimA /\ _dimB' = dimB /\ _dimC' = dimC
  /\ tpc' = "built"
  /\ UNCHANGED <<clobbers, uploaded, tBadFree>>
  /\ UNCHANGED <<memVars, countVars, gemmVars>>

\* Any call made after the constructor returned builds its frame over the cells
\* arr, brr and crr occupied.
StackReuse(c, v) ==
  /\ tpc = "built"
  /\ clobbers < MaxClobbers
  /\ c \in 1..(3 * _batchCount)
  /\ stack[c] # v
  /\ stack' = [stack EXCEPT ![c] = v]
  /\ clobbers' = clobbers + 1
  /\ UNCHANGED <<tpc, _batchCount, _dimA, _dimB, _dimC, _tensorA, _tensorB,
                 _tensorC, tLive, slotsA, slotsB, slotsC, uploaded, tBadFree>>
  /\ UNCHANGED <<memVars, countVars, gemmVars>>

\* tensor_dot_matrix(tensor, B): copies the operands into the slots the tables
\* designate.
TensorDotMatrix ==
  /\ tpc = "built"
  /\ uploaded' = Table(_tensorA, _batchCount) \o Table(_tensorB, _batchCount)
  /\ UNCHANGED <<tpc, _batchCount, _dimA, _dimB, _dimC, _tensorA, _tensorB,
                 _tensorC, stack, tLive, slotsA, slotsB, slotsC, clobbers,
                 tBadFree>>
  /\ UNCHANGED <<memVars, countVars, gemmVars>>

\* ~TensorMatrix(): free_tensor_memory on each table: cudaFree of every entry.
RECURSIVE FreeAll(_, _)
FreeAll(live, ptrs) ==
  IF ptrs = <<>> THEN [live |-> live, bad |-> FALSE]
  ELSE LET rest == FreeAll(CudaFree(live, Head(ptrs)), Tail(ptrs))
       IN [live |-> rest.live,
           bad |-> (rest.bad \/ CudaFreeInvalid(live, Head(ptrs)))]

TensorMatrixDtor ==
  /\ tpc = "built"
  /\ LET all == Table(_tensorA, _batchCount) \o Table(_tensorB, _batchCount)
                  \o Table(_tensorC, _batchCount)
         done == FreeAll(tLive, all)
     IN /\ tLive' = done.live
        /\ tBadFree' = done.bad
  /\ tpc' = "destroyed"
  /\ UNCHANGED <<_batchCount, _dimA, _dimB, _dimC, _tensorA, _tensorB, _tensorC,
                 stack, slotsA, slotsB, slotsC, clobbers, uploaded>>
  /\ UNCHANGED <<memVars, countVars, gemmVars>>

NextTensor ==
  \/ \E b \in 1..MaxBatch, da \in 1..MaxDim, db \in 1..MaxDim, dc \in 1..MaxDim :
       TensorMatrixCtor(b, da, db, dc)
  \/ \E c \in StackCells, v \in {NullPtr} \cup TensorPtrs : StackReuse(c, v)
  \/ TensorDotMatrix
  \/ TensorMatrixDtor


\* ---------------------------------------------------------- specifications
\* The components that a specification does not exercise stay in a fixed state.
IdleMem == InitMem /\ DEBUG = FALSE

IdleGemm ==
  /\ InitGemm
  /\ A_rows = 1 /\ A_cols = 1 /\ B_rows = 1 /\ B_cols = 1
  /\ gLive = <<>>

\* The memory manager: allocation calls, handles, and a concurrent allocator.
NextMem ==
  \/ \E r \in 1..MaxReq : CallAlloc(r)
  \/ \E ok \in BOOLEAN, g \in 0..TotalMem : ThrowIfNotEnoughMemoryInGpu(ok, g)
  \/ \E ok \in BOOLEAN, p \in Ptrs : CudaMalloc(ok, p)
  \/ \E g \in PtrValues : WrapAndReturn(g)
  \/ \E n \in 0..TotalMem : OtherAllocator(n)
  \/ \E h \in 1..MaxHandles : DestroyHandle(h)
  \/ \E h \in 1..MaxHandles : MoveHandle(h)

InitSpecMem == InitMem /\ InitCount /\ IdleGemm /\ InitTensor

SpecMem == InitSpecMem /\ [][NextMem]_vars

\* count_available_gpus on every query result.
NextCount ==
  \E ok \in BOOLEAN, n \in 0..MaxGpus, g \in 0..MaxGpus : CountAvailableGpus(ok, n, g)

InitSpecCount == IdleMem /\ InitCount /\ IdleGemm /\ InitTensor

SpecCount == InitSpecCount /\ [][NextCount]_vars

\* One run of cublas_gemm on every pair of operand shapes.
InitSpecGemm == IdleMem /\ InitCount /\ InitGemm /\ InitTensor

SpecGemm == InitSpecGemm /\ [][NextGemm]_vars

\* One TensorMatrix from construction to destruction.
InitSpecTensor == IdleMem /\ InitCount /\ IdleGemm /\ InitTensor

SpecTensor == InitSpecTensor /\ [][NextTensor]_vars


\* ------------------------------------------------------------------ claims
Ended == outcome.kind \in {"threw", "handle"}

\* C1: when cudaMemGetInfo reports f free bytes, alloc_tensor_in_gpu(r) throws
\* if and only if r > f (r = f is accepted); a call that throws has issued no
\* cudaMalloc and leaves this process's live device regions as they were at
\* entry.
C1_ThrowsIffRequestExceedsFree ==
  (Ended /\ outcome.queryOk) =>
    /\ (outcome.kind = "threw") <=> (outcome.size > outcome.free)
    /\ outcome.kind = "threw" =>
         /\ outcome.mallocCalls = 0
         /\ outcome.liveAfter = outcome.liveBefore

\* A call that threw on r = f + 1 while this process held device regions.
C1_Witness_ThrewWithRegionsLive ==
  /\ outcome.kind = "threw"
  /\ outcome.queryOk
  /\ outcome.size = outcome.free + 1
  /\ outcome.liveBefore # {}

\* C2: when the free-memory check passed and a concurrent allocator took the
\* bytes before cudaMalloc was issued, so that cudaMalloc fails, the call ends
\* in an error: it never returns a handle.
C2_LostRaceSurfacesError ==
  ( /\ Ended
    /\ outcome.queryOk
    /\ outcome.size <= outcome.free
    /\ outcome.mallocCalls = 1
    /\ outcome.size > outcome.freeAtMalloc )
  => (outcome.kind = "threw" /\ outcome.kind # "handle")

\* C3: count_available_gpus returns the device count when the query succeeds
\* and 0 when the query fails.
C3_CountOrZeroOnFailure ==
  lastCount.kind = "returned" =>
    /\ lastCount.ok => lastCount.value = lastCount.devices
    /\ ~lastCount.ok => lastCount.value = 0

\* The logged operation named op (each is issued at most once per run).
Pos(op) == IF \E i \in 1..Len(opLog) : opLog[i].op = op
           THEN CHOOSE i \in 1..Len(opLog) : opLog[i].op = op
           ELSE 0

Issued(op) == opLog[Pos(op)]

\* b is issued only after a.
Before(a, b) == Pos(b) # 0 => (Pos(a) # 0 /\ Pos(a) < Pos(b))

VendorOps == {"mallocA", "mallocB", "mallocC", "create", "h2dA", "h2dB", "gemm", "d2hC"}
UseOps == {"h2dA", "h2dB", "gemm", "d2hC"}

\* C4: for A of shape m x k and B of shape k x n (square or not) the product is
\* m x n, the device regions and copies of A, B, C cover m*k, k*n, m*n elements,
\* no copy covers more elements than its host buffer holds, and the multiply is
\* invoked with (m, n, k).
C4_CompatibleShapesAccepted ==
  (gpc = "done" /\ A_cols = B_rows /\ ~failed) =>
    /\ returned.kind = "value"
    /\ returned.shape = <<A_rows, B_cols>>
    /\ Issued("mallocA").count = A_rows * A_cols
    /\ Issued("mallocB").count = B_rows * B_cols
    /\ Issued("mallocC").count = A_rows * B_cols
    /\ Issued("h2dA").count = A_rows * A_cols
    /\ Issued("h2dB").count = B_rows * B_cols
    /\ Issued("d2hC").count = A_rows * B_cols
    /\ \A op \in {"h2dA", "h2dB", "d2hC"} : Issued(op).count <= Issued(op).host
    /\ Issued("gemm").dims = <<A_rows, B_cols, A_cols>>

\* C5: with A.cols # B.rows the product issues no device allocation and ends in
\* a ShapeMismatch error.
C5_ShapeMismatchBeforeAllocation ==
  A_cols # B_rows =>
    /\ \A i \in 1..Len(opLog) : opLog[i].op \notin {"mallocA", "mallocB", "mallocC"}
    /\ gpc = "done" => returned.kind = "ShapeMismatch"

\* C6: the buffers are allocated before they are used, both uploads precede the
\* multiply, the multiply precedes the download, the frees follow the download,
\* and every copy and the multiply touch only live device regions.
C6_OperationsOrderedOnLiveBuffers ==
  /\ Before("mallocA", "h2dA") /\ Before("mallocB", "h2dB") /\ Before("mallocC", "gemm")
  /\ Before("h2dA", "gemm") /\ Before("h2dB", "gemm")
  /\ Before("gemm", "d2hC")
  /\ Before("d2hC", "freeA") /\ Before("d2hC", "freeB") /\ Before("d2hC", "freeC")
  /\ \A i \in 1..Len(opLog) : opLog[i].op \in UseOps => opLog[i].valid

\* C7: once a device allocation, copy, context creation or multiply of the
\* operation has reported failure, the operation returns no result value.
C7_VendorFailureAborts ==
  ( /\ gpc = "done"
    /\ \E i \in 1..Len(opLog) : opLog[i].op \in VendorOps /\ ~opLog[i].ok )
  => returned.kind # "value"

\* C8: when the operation exits, the live device regions are those that were
\* live at entry, and it has issued no free for an address that was not live.
C8_LiveSetRestoredAtExit ==
  gpc = "done" => (DOMAIN gLive = gLiveAtEntry /\ ~gBadFree)

\* C9: between calls, every region a successful alloc_tensor_in_gpu returned is
\* live as long as its owning handle is, is held by one owning handle only, and
\* every live region has a live owning handle.
C9_RegionLivesExactlyAsLongAsHandle ==
  /\ \A h \in owned : handles[h] # NullPtr => handles[h] \in DOMAIN devLive
  /\ \A h, g \in owned : (h # g /\ handles[h] # NullPtr) => handles[h] # handles[g]
  /\ pc = "idle" => \A p \in DOMAIN devLive : \E h \in owned : handles[h] = p

\* C10: from the constructor's return to destruction the tables read through
\* _tensorA, _tensorB, _tensorC are the slots allocated at construction, and
\* destruction frees exactly those slots, each once.
C10_TablesDesignateConstructionSlots ==
  /\ tpc = "built" =>
       /\ Table(_tensorA, _batchCount) = slotsA
       /\ Table(_tensorB, _batchCount) = slotsB
       /\ Table(_tensorC, _batchCount) = slotsC
  /\ tpc = "destroyed" => (tLive = <<>> /\ ~tBadFree)

=============================================================================
